---- MODULE Spec2Model ----
(***************************************************************************)
(* Retrieval-and-filtering pipeline of the competitive intelligence        *)
(* reporter: app.py drives collect -> process_and_store_documents ->       *)
(* retrieve_and_filter_context -> summarize_information against a          *)
(* persistent Chroma collection.                                           *)
(*                                                                         *)
(* Text is modelled as a sequence of one-character strings, so that date   *)
(* formatting (strftime) and date parsing (strptime, fromisoformat) are    *)
(* computed character by character.  An optional metadata value is a       *)
(* sequence of length 0 (key absent, .get() gives None) or 1 (the value).  *)
(***************************************************************************)
EXTENDS Integers, Sequences, FiniteSets, TLC

\* ------------------------------------------------------------------ bounds
MaxDocs == 3        \* longest list handed to filter_documents_by_date directly
MaxRuns == 2        \* "Generate Report" clicks followed in one behaviour
MaxChunks == 4      \* most chunks the splitter makes of one document
MaxSections == 3    \* most documents WebBaseLoader.load() returns for one page

\* ------------------------------------------------------- program constants
SEARCH_K == 15      \* agent.py: create_basic_retriever(vector_store, search_k=15)
CONTEXT_CAP == 7    \* agent.py: filtered_docs[:7]

\* ------------------------------------------------------------------ text
DigitChars == <<"0", "1", "2", "3", "4", "5", "6", "7", "8", "9">>

IsDigit(c) == \E i \in 1..10 : DigitChars[i] = c

DigitVal(c) == (CHOOSE i \in 1..10 : DigitChars[i] = c) - 1

AllDigits(s) == \A i \in 1..Len(s) : IsDigit(s[i])

RECURSIVE NumVal(_)
NumVal(s) == IF s = <<>> THEN 0
             ELSE 10 * NumVal(SubSeq(s, 1, Len(s) - 1)) + DigitVal(s[Len(s)])

Pad2(n) == <<DigitChars[(n \div 10) + 1], DigitChars[(n % 10) + 1]>>

Pad4(n) == <<DigitChars[((n \div 1000) % 10) + 1], DigitChars[((n \div 100) % 10) + 1],
             DigitChars[((n \div 10) % 10) + 1], DigitChars[(n % 10) + 1]>>

Contains(s, c) == \E i \in 1..Len(s) : s[i] = c

\* str.replace('Z', '+00:00')
RECURSIVE ReplaceZ(_)
ReplaceZ(s) == IF s = <<>> THEN <<>>
               ELSE (IF Head(s) = "Z" THEN <<"+", "0", "0", ":", "0", "0">> ELSE <<Head(s)>>)
                    \o ReplaceZ(Tail(s))

None == <<>>
Some(v) == <<v>>
IsNone(o) == o = <<>>
Val(o) == o[1]

\* ------------------------------------------------------------------ dates
\* A naive datetime is <<year, month, day, hour, minute, second>>.
IsLeap(y) == (y % 4 = 0 /\ y % 100 # 0) \/ y % 400 = 0

DaysInMonth(y, m) == IF m = 2 THEN (IF IsLeap(y) THEN 29 ELSE 28)
                     ELSE IF m \in {4, 6, 9, 11} THEN 30 ELSE 31

ValidDate(y, m, d) == y \in 1..9999 /\ m \in 1..12 /\ d \in 1..DaysInMonth(y, m)

RECURSIVE LexLess(_, _)
LexLess(a, b) == IF a = <<>> \/ b = <<>> THEN FALSE
                 ELSE IF Head(a) # Head(b) THEN Head(a) < Head(b)
                 ELSE LexLess(Tail(a), Tail(b))

\* datetime.__ge__ on naive datetimes
DateTimeGE(a, b) == ~LexLess(a, b)

PrevDay(dt) == IF dt[3] > 1 THEN <<dt[1], dt[2], dt[3] - 1, dt[4], dt[5], dt[6]>>
               ELSE IF dt[2] > 1
                    THEN <<dt[1], dt[2] - 1, DaysInMonth(dt[1], dt[2] - 1), dt[4], dt[5], dt[6]>>
                    ELSE <<dt[1] - 1, 12, 31, dt[4], dt[5], dt[6]>>

\* datetime - timedelta(days=n)
RECURSIVE MinusDays(_, _)
MinusDays(dt, n) == IF n = 0 THEN dt ELSE MinusDays(PrevDay(dt), n - 1)

\* datetime.strftime('%Y-%m-%d')
Strftime(dt) == Pad4(dt[1]) \o <<"-">> \o Pad2(dt[2]) \o <<"-">> \o Pad2(dt[3])

ParseFail == [ok |-> FALSE, dt |-> <<>>]
ParseOk(dt) == [ok |-> TRUE, dt |-> dt]

\* position of the first "-" at or after position i, 0 if there is none
RECURSIVE FindDash(_, _)
FindDash(s, i) == IF i > Len(s) THEN 0
                  ELSE IF s[i] = "-" THEN i ELSE FindDash(s, i + 1)

\* the directive %m: 1[0-2]|0[1-9]|[1-9]
MatchesMonth(p) == Len(p) \in 1..2 /\ AllDigits(p) /\ NumVal(p) \in 1..12

\* the directive %d: 3[01]|[12]\d|0[1-9]|[1-9]| [1-9]
MatchesDay(p) == \/ Len(p) \in 1..2 /\ AllDigits(p) /\ NumVal(p) \in 1..31
                 \/ Len(p) = 2 /\ p[1] = " " /\ IsDigit(p[2]) /\ p[2] # "0"

DayVal(p) == IF p[1] = " " THEN DigitVal(p[2]) ELSE NumVal(p)

\* datetime.strptime(s, '%Y-%m-%d'): ParseFail stands for ValueError
Strptime(s) ==
    IF Len(s) < 8 \/ ~AllDigits(SubSeq(s, 1, 4)) \/ s[5] # "-" THEN ParseFail
    ELSE LET k == FindDash(s, 6)
         IN IF k = 0 THEN ParseFail
            ELSE LET mp == SubSeq(s, 6, k - 1)
                     dp == SubSeq(s, k + 1, Len(s))
                 IN IF ~MatchesMonth(mp) \/ ~MatchesDay(dp) THEN ParseFail
                    ELSE LET y == NumVal(SubSeq(s, 1, 4))
                             m == NumVal(mp)
                             d == DayVal(dp)
                         IN IF ValidDate(y, m, d) THEN ParseOk(<<y, m, d, 0, 0, 0>>)
                            ELSE ParseFail

TwoDigits(s, i) == i + 1 <= Len(s) /\ IsDigit(s[i]) /\ IsDigit(s[i + 1])

\* the UTC offset suffix [+-]HH:MM starting at position i
ValidOffset(s, i) == /\ Len(s) = i + 5
                     /\ s[i] \in {"+", "-"}
                     /\ TwoDigits(s, i + 1) /\ s[i + 3] = ":" /\ TwoDigits(s, i + 4)
                     /\ NumVal(SubSeq(s, i + 1, i + 2)) < 24
                     /\ NumVal(SubSeq(s, i + 4, i + 5)) < 60

\* datetime.fromisoformat(s).replace(tzinfo=None) for YYYY-MM-DD?HH[:MM[:SS]][+HH:MM];
\* ParseFail stands for ValueError
FromIsoFormatNaive(s) ==
    IF Len(s) < 13 THEN ParseFail
    ELSE IF ~(AllDigits(SubSeq(s, 1, 4)) /\ s[5] = "-" /\ TwoDigits(s, 6)
              /\ s[8] = "-" /\ TwoDigits(s, 9) /\ TwoDigits(s, 12)) THEN ParseFail
    ELSE LET y == NumVal(SubSeq(s, 1, 4))
             m == NumVal(SubSeq(s, 6, 7))
             d == NumVal(SubSeq(s, 9, 10))
             hh == NumVal(SubSeq(s, 12, 13))
             hasMin == Len(s) >= 16 /\ s[14] = ":" /\ TwoDigits(s, 15)
             hasSec == hasMin /\ Len(s) >= 19 /\ s[17] = ":" /\ TwoDigits(s, 18)
             timeEnd == IF hasSec THEN 19 ELSE IF hasMin THEN 16 ELSE 13
             mi == IF hasMin THEN NumVal(SubSeq(s, 15, 16)) ELSE 0
             ss == IF hasSec THEN NumVal(SubSeq(s, 18, 19)) ELSE 0
         IN IF /\ ValidDate(y, m, d) /\ hh < 24 /\ mi < 60 /\ ss < 60
               /\ (Len(s) = timeEnd \/ ValidOffset(s, timeEnd + 1))
            THEN ParseOk(<<y, m, d, hh, mi, ss>>)
            ELSE ParseFail

\* ------------------------------------------------------------- documents
\* A Document is [id, source, publish_date]: id stands for the page_content (and,
\* once stored, the record id Chroma assigns), source and publish_date are the
\* optional metadata values doc.metadata.get(...) returns.
NewsDoc(id, pd) == [id |-> id, source |-> Some("newsapi"), publish_date |-> pd]
WebDoc(id, src) == [id |-> id, source |-> src, publish_date |-> None]

\* the lines 93-96 of filter_documents_by_date: choice of parser by 'T' in the string
ParseNewsDate(s) == IF Contains(s, "T") THEN FromIsoFormatNaive(ReplaceZ(s))
                    ELSE Strptime(s)

\* KeepDoc with the comparison publish_date > start_date
KeepDoc_Strict(doc, start_date) ==
    IF doc.source = Some("newsapi")
    THEN IF ~IsNone(doc.publish_date) /\ Val(doc.publish_date) # <<>>
         THEN LET p == ParseNewsDate(Val(doc.publish_date))
              IN p.ok /\ LexLess(start_date, p.dt)
         ELSE FALSE
    ELSE TRUE

\* KeepDoc with the comparison turned round: publish_date <= start_date
KeepDoc_Reversed(doc, start_date) ==
    IF doc.source = Some("newsapi")
    THEN IF ~IsNone(doc.publish_date) /\ Val(doc.publish_date) # <<>>
         THEN LET p == ParseNewsDate(Val(doc.publish_date))
              IN p.ok /\ DateTimeGE(start_date, p.dt)
         ELSE FALSE
    ELSE TRUE

\* KeepDoc appending a news document that has no publish_date
KeepDoc_KeepUndated(doc, start_date) ==
    IF doc.source = Some("newsapi")
    THEN IF ~IsNone(doc.publish_date) /\ Val(doc.publish_date) # <<>>
         THEN LET p == ParseNewsDate(Val(doc.publish_date))
              IN p.ok /\ DateTimeGE(p.dt, start_date)
         ELSE TRUE
    ELSE TRUE

\* one iteration of the loop of filter_documents_by_date: is doc appended?
KeepDoc(doc, start_date) ==
    IF doc.source = Some("newsapi")
    THEN IF ~IsNone(doc.publish_date) /\ Val(doc.publish_date) # <<>>
         THEN LET p == ParseNewsDate(Val(doc.publish_date))
              IN p.ok /\ DateTimeGE(p.dt, start_date)
         ELSE FALSE
    ELSE TRUE

RECURSIVE FilterLoop(_, _)
FilterLoop(docs, start_date) ==
    IF docs = <<>> THEN <<>>
    ELSE (IF KeepDoc(Head(docs), start_date) THEN <<Head(docs)>> ELSE <<>>)
         \o FilterLoop(Tail(docs), start_date)

\* filter_documents_by_date(docs, start_date_str); raised: the ValueError of line 80
filter_documents_by_date(docs, start_date_str) ==
    IF docs = <<>> THEN [raised |-> FALSE, docs |-> <<>>]
    ELSE LET sd == Strptime(start_date_str)
         IN IF ~sd.ok THEN [raised |-> TRUE, docs |-> <<>>]
            ELSE [raised |-> FALSE, docs |-> FilterLoop(docs, sd.dt)]

\* ------------------------------------------------------------- the clock
\* datetime.now() of the runs followed: 1 June 2024, mid-morning
Now == <<2024, 6, 1, 10, 15, 0>>

\* utils.get_date_n_days_ago(days)
get_date_n_days_ago(days) == Strftime(MinusDays(Now, days))

\* values of the days_back slider (ui.py: 1..30) that are followed
DaysBackChoices == {1, 7}

\* ------------------------------------------------------ publish_date pool
IsoTime(dt) == <<"T">> \o Pad2(dt[4]) \o <<":">> \o Pad2(dt[5]) \o <<":">> \o Pad2(dt[6])
PlainStr(dt) == Strftime(dt)
IsoZStr(dt) == Strftime(dt) \o IsoTime(dt) \o <<"Z">>
IsoOffStr(dt) == Strftime(dt) \o IsoTime(dt) \o <<"+", "0", "5", ":", "3", "0">>

NAStr == <<"N", "/", "A">>
GarbageStr == <<"n", "o", "t", "-", "a", "-", "d", "a", "t", "e">>
Feb30Str == <<"2", "0", "2", "4", "-", "0", "2", "-", "3", "0">>
BadIsoStr == <<"2", "0", "2", "4", "-", "0", "5", "-", "2", "5", "T", "x", "x">>

PlainDays == {<<2024, 5, 28, 0, 0, 0>>, <<2024, 5, 25, 0, 0, 0>>, <<2024, 5, 24, 0, 0, 0>>}
IsoZTimes == {<<2024, 5, 25, 0, 0, 0>>, <<2024, 5, 24, 23, 59, 59>>}
IsoOffTimes == {<<2024, 5, 31, 1, 0, 0>>}

GoodDateStrs == {PlainStr(dt) : dt \in PlainDays} \cup {IsoZStr(dt) : dt \in IsoZTimes}
                \cup {IsoOffStr(dt) : dt \in IsoOffTimes}
BadDateStrs == {NAStr, <<>>, GarbageStr, Feb30Str, BadIsoStr}

\* publish_date values of news documents: a string, or the key absent
NewsDates == {Some(s) : s \in GoodDateStrs \cup BadDateStrs} \cup {None}

UrlStr == "https://example.com"
WebSources == {Some("website"), Some(UrlStr), None}

\* ------------------------------------------------- what the collectors give
\* publish_date values of the articles the news collector returns in the runs
\* followed: publishedAt as NewsAPI writes it, or the placeholder 'N/A'
RunNewsDates == {Some(IsoZStr(<<2024, 5, 25, 0, 0, 0>>)), Some(NAStr)}

\* A raw document is [source, publish_date, nchunks]; nchunks is the number of
\* chunks RecursiveCharacterTextSplitter makes of its page_content.
\* collect_news_data: [] (no client, no name, request failed, no usable article)
\* or the articles with usable content; cleaned content is never empty
NewsResults == {<<>>} \cup
    {<<[source |-> Some("newsapi"), publish_date |-> pd, nchunks |-> n]>> :
        pd \in RunNewsDates, n \in {1, MaxChunks}}

\* metadata 'source' of a Document as WebBaseLoader.load() hands it over
LoaderSources == {None, Some(UrlStr)}

\* doc.metadata.setdefault('source', 'website')
SetDefaultSource(src) == IF IsNone(src) THEN Some("website") ELSE src

\* the names agent.py binds at module level (imports of lines 1-12 and the
\* assignments and definitions below them); "datetime" is not among them
AgentGlobals == {"NewsApiClient", "Document", "ChatGoogleGenerativeAI", "PromptTemplate",
                 "StrOutputParser", "List", "Dict", "logging", "WebBaseLoader", "config",
                 "utils", "db_retriever", "newsapi", "llm", "collect_news_data",
                 "scrape_website_data", "retrieve_and_filter_context",
                 "summarize_information"}

\* evaluating a global name in agent.py: an unbound name raises NameError
NameResolves(name) == name \in AgentGlobals

\* a document section as loader.load() returns it: the metadata 'source' it
\* already carries, and the number of chunks its text splits into (0 for a page
\* of whitespace only)
LoadedSections == [source : LoaderSources, nchunks : {0, 1}]

\* the loop of scrape_website_data over web_docs (lines 107-110)
StampSections(sections, url, fetch_date_str) ==
    [i \in 1..Len(sections) |->
        [source |-> SetDefaultSource(sections[i].source), publish_date |-> None,
         nchunks |-> sections[i].nchunks, fetch_date |-> Some(fetch_date_str),
         url |-> Some(url)]]

\* scrape_website_data(url); load_ok: loader.load() returns, sections: what it
\* returns. Every exception inside the try, the NameError of line 106 included,
\* is logged and answered with [].
scrape_website_data(url, load_ok, sections) ==
    IF url = "" THEN [docs |-> <<>>, logged_error |-> FALSE]
    ELSE IF ~load_ok THEN [docs |-> <<>>, logged_error |-> TRUE]
    ELSE IF ~NameResolves("datetime") THEN [docs |-> <<>>, logged_error |-> TRUE]
    ELSE [docs |-> StampSections(sections, url, Strftime(Now)), logged_error |-> FALSE]

\* the competitor_url values followed: left empty, or a URL
UrlChoices == {"", UrlStr}

RawDoc(d) == [source |-> d.source, publish_date |-> d.publish_date, nchunks |-> d.nchunks]

\* web_docs of app.py: what scrape_website_data returns for a page of one section
WebResults ==
    {[i \in 1..Len(r) |-> RawDoc(r[i])] :
        r \in {scrape_website_data(u, ok, <<sec>>).docs :
                  u \in UrlChoices, ok \in BOOLEAN, sec \in LoadedSections}}

\* web documents a caller hands to process_and_store_documents: none, or one
\* page as a web collector delivers it (source 'website', or the source the
\* loader had already set)
HandedWebDocs == {<<>>} \cup
    {<<[source |-> SetDefaultSource(src), publish_date |-> None, nchunks |-> n]>> :
        src \in LoaderSources, n \in {0, 1}}

\* ------------------------------------------------------------- the index
RECURSIVE Copies(_, _)
Copies(d, n) == IF n = 0 THEN <<>> ELSE <<d>> \o Copies(d, n - 1)

\* text_splitter.split_documents(docs): every chunk carries its parent's metadata
RECURSIVE split_documents(_)
split_documents(docs) ==
    IF docs = <<>> THEN <<>>
    ELSE Copies([source |-> Head(docs).source, publish_date |-> Head(docs).publish_date],
                Head(docs).nchunks)
         \o split_documents(Tail(docs))

\* the records of one add_documents call; Chroma gives each a fresh id
NewRecords(chunks, base) ==
    [i \in 1..Len(chunks) |-> [id |-> base + i, source |-> chunks[i].source,
                               publish_date |-> chunks[i].publish_date]]

\* add_documents writing into a collection that was created anew
add_documents_Overwrite(idx, chunks) == NewRecords(chunks, 0)

\* add_documents with content-derived ids: a chunk already stored is not added
add_documents_Dedup(idx, chunks) ==
    LET fresh == SelectSeq(chunks, LAMBDA c : \A j \in 1..Len(idx) :
                     [source |-> idx[j].source, publish_date |-> idx[j].publish_date] # c)
    IN idx \o NewRecords(fresh, Len(idx))

\* vector_store.add_documents(split_docs) when it succeeds
add_documents(idx, chunks) == idx \o NewRecords(chunks, Len(idx))

\* process_and_store_documents(docs, vector_store); fails: add_documents raises.
\* Gives the index afterwards, whether the except branch logged an error and
\* whether an exception leaves the function.
process_and_store_documents(docs, idx, fails) ==
    IF docs = <<>> THEN [index |-> idx, logged_error |-> FALSE, raises |-> FALSE]
    ELSE LET split_docs == split_documents(docs)
         IN IF split_docs = <<>>
            THEN [index |-> idx, logged_error |-> FALSE, raises |-> FALSE]
            ELSE IF fails
                 THEN [index |-> idx, logged_error |-> TRUE, raises |-> FALSE]
                 ELSE [index |-> add_documents(idx, split_docs),
                       logged_error |-> FALSE, raises |-> FALSE]

RECURSIVE Reverse(_)
Reverse(s) == IF s = <<>> THEN <<>> ELSE Reverse(Tail(s)) \o <<Head(s)>>

Prefix(s, n) == SubSeq(s, 1, IF Len(s) < n THEN Len(s) ELSE n)

\* similarity rankings of the collection that are followed
SimilarityOrders == {"insertion", "reverse"}

\* retriever.invoke(query) with search_kwargs k: the k most similar records
retriever_invoke(idx, order, k) ==
    Prefix(IF order = "insertion" THEN idx ELSE Reverse(idx), k)

RECURSIVE SelectSource(_, _)
SelectSource(docs, src) ==
    IF docs = <<>> THEN <<>>
    ELSE (IF Head(docs).source = Some(src) THEN <<Head(docs)>> ELSE <<>>)
         \o SelectSource(Tail(docs), src)

\* CombineFiltered with the web documents put first
CombineFiltered_WebFirst(retrieved, start_date_str) ==
    LET f == filter_documents_by_date(SelectSource(retrieved, "newsapi"), start_date_str)
    IN [raised |-> f.raised, docs |-> SelectSource(retrieved, "website") \o f.docs]

\* the filtering step of retrieve_and_filter_context: filtered news, then web
CombineFiltered(retrieved, start_date_str) ==
    LET f == filter_documents_by_date(SelectSource(retrieved, "newsapi"), start_date_str)
    IN [raised |-> f.raised, docs |-> f.docs \o SelectSource(retrieved, "website")]

\* Truncate cutting one entry later
Truncate_OffByOne(docs) == Prefix(docs, CONTEXT_CAP + 1)

\* final_docs = filtered_docs[:7]
Truncate(docs) == Prefix(docs, CONTEXT_CAP)

\* summarize_information without the check for an empty context
summarize_information_NoEmptyCheck(context, llm_ok, llm_fails) ==
    IF ~llm_ok THEN [report |-> "llm_not_initialized", llm_input |-> None]
    ELSE IF llm_fails THEN [report |-> "error_generating_summary", llm_input |-> Some(context)]
    ELSE [report |-> "summary", llm_input |-> Some(context)]

\* summarize_information(context_docs, competitor_name); llm_ok: agent.llm is set,
\* llm_fails: the chain raises. Gives the returned text and the context the
\* language model was invoked with (None: not invoked).
summarize_information(context, llm_ok, llm_fails) ==
    IF ~llm_ok THEN [report |-> "llm_not_initialized", llm_input |-> None]
    ELSE IF context = <<>> THEN [report |-> "no_relevant_content", llm_input |-> None]
    ELSE IF llm_fails THEN [report |-> "error_generating_summary", llm_input |-> Some(context)]
    ELSE [report |-> "summary", llm_input |-> Some(context)]

\* ------------------------------------------------------------------ state
VARIABLES
    fdocs,      \* direct call of filter_documents_by_date: the argument docs
    fstart,     \* ... the argument start_date_str
    fresult,    \* ... what the call returned
    fpc,        \* ... "build" | "called"
    llm,        \* agent.llm was initialised at import
    index,      \* the records of the persistent Chroma collection
    pc,         \* position of app.py: "idle" | "store" | "retrieve" | "summarize" | "done"
    runs,       \* report generations started
    all_docs,   \* app.py: news_docs + web_docs of the current run
    days_back,  \* the slider value of the current run
    store_error,    \* process_and_store_documents logged an add_documents failure
    index_before,   \* the collection as the current run found it
    retrieved_docs, \* retrieve_and_filter_context: retrieved_docs
    filtered_docs,  \* ... filtered_docs after extend(web_docs)
    context_docs,   \* ... final_docs, the Context Set
    llm_input,      \* the context the language model was invoked with, if it was
    report,         \* what the run showed: "none" | "stopped" | "unexpected_error"
                    \* | a text summarize_information returned
    sc_url,         \* direct call of scrape_website_data: the argument url
    sc_load_ok,     \* ... loader.load() returned
    sc_sections,    \* ... the documents loader.load() returns
    sc_result,      \* ... what the call returned
    sc_pc           \* ... "build" | "called"

fvars == <<fdocs, fstart, fresult, fpc>>
pvars == <<llm, index, pc, runs, all_docs, days_back, store_error, index_before,
           retrieved_docs, filtered_docs, context_docs, llm_input, report>>
svars == <<sc_url, sc_load_ok, sc_sections, sc_result, sc_pc>>
vars == <<fdocs, fstart, fresult, fpc, llm, index, pc, runs, all_docs, days_back,
          store_error, index_before, retrieved_docs, filtered_docs, context_docs,
          llm_input, report, sc_url, sc_load_ok, sc_sections, sc_result, sc_pc>>

NoResult == [raised |-> FALSE, docs |-> <<>>]

FInit == /\ fdocs = <<>>
         /\ fstart = <<>>
         /\ fresult = NoResult
         /\ fpc = "build"

SInit == /\ sc_url = ""
         /\ sc_load_ok = FALSE
         /\ sc_sections = <<>>
         /\ sc_result = [docs |-> <<>>, logged_error |-> FALSE]
         /\ sc_pc = "build"

PInit == /\ index = <<>>
         /\ pc = "idle"
         /\ runs = 0
         /\ all_docs = <<>>
         /\ days_back = 0
         /\ store_error = FALSE
         /\ index_before = <<>>
         /\ retrieved_docs = <<>>
         /\ filtered_docs = <<>>
         /\ context_docs = <<>>
         /\ llm_input = None
         /\ report = "none"

\* ---------------------------------------- filter_documents_by_date, called directly
\* the caller appends one more document to the list it is going to filter
FAppendNews == /\ fpc = "build"
               /\ Len(fdocs) < MaxDocs
               /\ \E pd \in NewsDates : fdocs' = Append(fdocs, NewsDoc(Len(fdocs) + 1, pd))
               /\ UNCHANGED <<fstart, fresult, fpc>>
               /\ UNCHANGED <<pvars, svars>>

FAppendWeb == /\ fpc = "build"
              /\ Len(fdocs) < MaxDocs
              /\ \E src \in WebSources : fdocs' = Append(fdocs, WebDoc(Len(fdocs) + 1, src))
              /\ UNCHANGED <<fstart, fresult, fpc>>
              /\ UNCHANGED <<pvars, svars>>

\* filtered = filter_documents_by_date(docs, get_date_n_days_ago(days_back))
FCall == /\ fpc = "build"
         /\ \E days \in DaysBackChoices :
                /\ fstart' = get_date_n_days_ago(days)
                /\ fresult' = filter_documents_by_date(fdocs, get_date_n_days_ago(days))
         /\ fpc' = "called"
         /\ UNCHANGED fdocs
         /\ UNCHANGED <<pvars, svars>>

FNext == FAppendNews \/ FAppendWeb \/ FCall

\* the state a direct call is made in: nothing of app.py has run
InitFilter == FInit /\ PInit /\ SInit /\ llm = TRUE

SpecFilter == InitFilter /\ [][FNext]_vars

\* ------------------------------------------------------------ app.py, one run
\* app.py lines 41-75 from all_docs = news_docs + web_docs on: a run starts with
\* these documents; with nothing collected it stops (st.stop)
StartRun(news, web, d) ==
    /\ pc \in {"idle", "done"}
    /\ llm
    /\ runs < MaxRuns
    /\ all_docs' = news \o web
    /\ days_back' = d
    /\ IF news \o web = <<>>
       THEN pc' = "done" /\ report' = "stopped"
       ELSE pc' = "store" /\ report' = "none"
    /\ runs' = runs + 1
    /\ index_before' = index
    /\ store_error' = FALSE
    /\ retrieved_docs' = <<>>
    /\ filtered_docs' = <<>>
    /\ context_docs' = <<>>
    /\ llm_input' = None
    /\ UNCHANGED <<llm, index>>
    /\ UNCHANGED <<fvars, svars>>

\* app.py lines 41-75: the button is clicked with a competitor name; news_docs
\* come from collect_news_data, web_docs from scrape_website_data
Collect ==
    \E news \in NewsResults, web \in WebResults, d \in DaysBackChoices :
        StartRun(news, web, d)

\* the same block of app.py with the documents handed to it by its collectors
\* taken as given: any news documents, any web documents
HandOver ==
    \E news \in NewsResults, web \in HandedWebDocs, d \in DaysBackChoices :
        StartRun(news, web, d)

\* app.py line 79: db_retriever.process_and_store_documents(all_docs, vector_store)
Store ==
    /\ pc = "store"
    /\ \E fails \in BOOLEAN :
          LET r == process_and_store_documents(all_docs, index, fails)
          IN /\ index' = r.index
             /\ store_error' = r.logged_error
             /\ IF r.raises
                THEN pc' = "done" /\ report' = "unexpected_error"
                ELSE pc' = "retrieve" /\ report' = report
    /\ UNCHANGED <<llm, runs, all_docs, days_back, index_before, retrieved_docs,
                   filtered_docs, context_docs, llm_input>>
    /\ UNCHANGED <<fvars, svars>>

\* app.py line 85: agent.retrieve_and_filter_context(vector_store, name, days_back)
Retrieve ==
    /\ pc = "retrieve"
    /\ \E order \in SimilarityOrders :
          LET retrieved == retriever_invoke(index, order, SEARCH_K)
              f == CombineFiltered(retrieved, get_date_n_days_ago(days_back))
          IN /\ retrieved_docs' = retrieved
             /\ filtered_docs' = f.docs
             /\ context_docs' = Truncate(f.docs)
             /\ IF f.raised
                THEN pc' = "done" /\ report' = "unexpected_error"
                ELSE pc' = "summarize" /\ report' = report
    /\ UNCHANGED <<llm, index, runs, all_docs, days_back, store_error, index_before,
                   llm_input>>
    /\ UNCHANGED <<fvars, svars>>

\* the similarity search raises (embedding or collection unavailable): app.py's
\* except branch shows the error
RetrieveFails ==
    /\ pc = "retrieve"
    /\ pc' = "done"
    /\ report' = "unexpected_error"
    /\ UNCHANGED <<llm, index, runs, all_docs, days_back, store_error, index_before,
                   retrieved_docs, filtered_docs, context_docs, llm_input>>
    /\ UNCHANGED <<fvars, svars>>

\* app.py lines 89-92: summarize_information and display_report
Summarize ==
    /\ pc = "summarize"
    /\ \E llm_fails \in BOOLEAN :
          LET r == summarize_information(context_docs, llm, llm_fails)
          IN /\ report' = r.report
             /\ llm_input' = r.llm_input
    /\ pc' = "done"
    /\ UNCHANGED <<llm, index, runs, all_docs, days_back, store_error, index_before,
                   retrieved_docs, filtered_docs, context_docs>>
    /\ UNCHANGED <<fvars, svars>>

Next == Collect \/ Store \/ Retrieve \/ RetrieveFails \/ Summarize

Init == FInit /\ PInit /\ SInit /\ llm \in BOOLEAN

Spec == Init /\ [][Next]_vars

\* the pipeline of app.py lines 71-92 on documents handed over by the collectors
NextCore == HandOver \/ Store \/ Retrieve \/ RetrieveFails \/ Summarize

SpecCore == Init /\ [][NextCore]_vars

\* ------------------------------------------- scrape_website_data, called directly
\* loader.load() is going to return one more document section
SAppendSection ==
    /\ sc_pc = "build"
    /\ Len(sc_sections) < MaxSections
    /\ \E sec \in LoadedSections : sc_sections' = Append(sc_sections, sec)
    /\ UNCHANGED <<sc_url, sc_load_ok, sc_result, sc_pc>>
    /\ UNCHANGED <<fvars, pvars>>

\* web_docs = scrape_website_data(url)
SCall ==
    /\ sc_pc = "build"
    /\ \E url \in UrlChoices, ok \in BOOLEAN :
          /\ sc_url' = url
          /\ sc_load_ok' = ok
          /\ sc_result' = scrape_website_data(url, ok, sc_sections)
    /\ sc_pc' = "called"
    /\ UNCHANGED sc_sections
    /\ UNCHANGED <<fvars, pvars>>

SNext == SAppendSection \/ SCall

\* the state a direct call is made in: nothing of app.py has run
InitScrape == FInit /\ PInit /\ SInit /\ llm = TRUE

SpecScrape == InitScrape /\ [][SNext]_vars

\* ===================================================================== claims
InSeq(d, s) == \E i \in 1..Len(s) : s[i] = d
PosIn(d, s) == CHOOSE i \in 1..Len(s) : s[i] = d
RemoveAt(s, i) == SubSeq(s, 1, i - 1) \o SubSeq(s, i + 1, Len(s))
IsNews(d) == d.source = Some("newsapi")
IsWebsite(d) == d.source = Some("website")
Midnight(dt) == <<dt[1], dt[2], dt[3], 0, 0, 0>>
Count(s, P(_)) == Cardinality({i \in 1..Len(s) : P(s[i])})

OrdinaryReports == {"summary", "no_relevant_content", "error_generating_summary"}

\* C1: if add_documents raises inside process_and_store_documents, the run is
\* aborted: it never goes on to retrieval and summarization, and the caller gets
\* no ordinary report in place of the failure.
C1_FailedUpsertAbortsRun ==
    store_error => (pc # "summarize" /\ report \notin OrdinaryReports)

\* C2: in retrieve_and_filter_context every retrieved document whose source is
\* anything other than "newsapi" is in the combined filtered list (before
\* truncation), whatever the cutoff date.
C2_NonNewsAlwaysKept ==
    \A i \in 1..Len(retrieved_docs) :
        ~IsNews(retrieved_docs[i]) => InSeq(retrieved_docs[i], filtered_docs)

\* the cutoff datetime a direct call was made with
FCutoff == Midnight(MinusDays(Now, CHOOSE d \in DaysBackChoices : fstart = get_date_n_days_ago(d)))

\* the naive datetime a well-formed publish_date string was written from, if any
WrittenFrom(str) ==
    {dt \in PlainDays : str = PlainStr(dt)} \cup {dt \in IsoZTimes : str = IsoZStr(dt)}
    \cup {dt \in IsoOffTimes : str = IsoOffStr(dt)}

\* C3: filter_documents_by_date keeps a "newsapi" document if and only if its
\* publish_date is a well-formed ISO-8601 or YYYY-MM-DD string whose date-time
\* (zone discarded) is on or after the cutoff date.
C3_NewsKeptIffOnOrAfterCutoff ==
    fpc = "called" =>
        /\ ~fresult.raised
        /\ \A i \in 1..Len(fdocs) :
              IsNews(fdocs[i]) =>
                  (InSeq(fdocs[i], fresult.docs) <=>
                      /\ ~IsNone(fdocs[i].publish_date)
                      /\ \E dt \in WrittenFrom(Val(fdocs[i].publish_date)) :
                            DateTimeGE(dt, FCutoff))

\* C3 witness: one call kept a news document dated on the cutoff day and dropped
\* one dated the day before.
C3_Witness ==
    /\ fpc = "called"
    /\ \E i, j \in 1..Len(fdocs) :
          /\ IsNews(fdocs[i]) /\ fdocs[i].publish_date = Some(PlainStr(FCutoff))
          /\ InSeq(fdocs[i], fresult.docs)
          /\ IsNews(fdocs[j]) /\ fdocs[j].publish_date = Some(PlainStr(PrevDay(FCutoff)))
          /\ ~InSeq(fdocs[j], fresult.docs)

BadDate(pd) == IsNone(pd) \/ Val(pd) \in BadDateStrs

\* C4: a news document whose publish_date is missing, empty, 'N/A' or unparsable
\* is dropped without an exception, and the rest of the list is filtered as if it
\* were absent.
C4_BadDateDroppedQuietly ==
    fpc = "called" =>
        \A i \in 1..Len(fdocs) :
            (IsNews(fdocs[i]) /\ BadDate(fdocs[i].publish_date)) =>
                /\ ~fresult.raised
                /\ ~InSeq(fdocs[i], fresult.docs)
                /\ fresult = filter_documents_by_date(RemoveAt(fdocs, i), fstart)

\* C4 witness: a call whose input held a news document carrying 'N/A' next to
\* documents that were kept.
C4_Witness ==
    /\ fpc = "called"
    /\ \E i \in 1..Len(fdocs) : IsNews(fdocs[i]) /\ fdocs[i].publish_date = Some(NAStr)
    /\ \E i \in 1..Len(fdocs) : IsNews(fdocs[i]) /\ IsNone(fdocs[i].publish_date)
    /\ fresult.docs # <<>>

\* C5: the Context Set has at most 7 entries and is the first min(7, n) entries,
\* in order, of the combined filtered list; with 7 or more news documents kept no
\* web document is in it.
C5_ContextIsPrefixOfSeven ==
    /\ Len(context_docs) <= 7
    /\ Len(context_docs) = (IF Len(filtered_docs) < 7 THEN Len(filtered_docs) ELSE 7)
    /\ \A i \in 1..Len(context_docs) : context_docs[i] = filtered_docs[i]
    /\ Count(filtered_docs, IsNews) >= 7 =>
          \A i \in 1..Len(context_docs) : IsNews(context_docs[i])

\* C5 witness: more than 7 documents were kept, at least 7 of them news, and a
\* retrieved website document was cut off.
C5_Witness ==
    /\ pc = "summarize"
    /\ Len(filtered_docs) > 7
    /\ Count(filtered_docs, IsNews) >= 7
    /\ \E i \in 1..Len(filtered_docs) :
          IsWebsite(filtered_docs[i]) /\ ~InSeq(filtered_docs[i], context_docs)

\* C6: the filtering step keeps, within the news documents and within the web
\* documents, the relative order of the retrieval result, and places every kept
\* web document after every kept news document.
C6_OrderPreserved ==
    /\ \A i \in 1..Len(filtered_docs) : InSeq(filtered_docs[i], retrieved_docs)
    /\ \A i, j \in 1..Len(filtered_docs) :
          i < j =>
              /\ ~(IsWebsite(filtered_docs[i]) /\ IsNews(filtered_docs[j]))
              /\ (IsNews(filtered_docs[i]) <=> IsNews(filtered_docs[j])) =>
                    PosIn(filtered_docs[i], retrieved_docs)
                        < PosIn(filtered_docs[j], retrieved_docs)

\* C6 witness: two news documents and two website documents were kept, and the
\* retrieval result had a website document ahead of a kept news document.
C6_Witness ==
    /\ pc = "summarize"
    /\ Count(filtered_docs, IsNews) >= 2
    /\ Count(filtered_docs, IsWebsite) >= 2
    /\ \E i, j \in 1..Len(retrieved_docs) :
          /\ i < j
          /\ IsWebsite(retrieved_docs[i])
          /\ IsNews(retrieved_docs[j]) /\ InSeq(retrieved_docs[j], filtered_docs)

\* C7: a run whose documents split into zero chunks writes nothing to the index,
\* logs no storage error, and hands on an empty Context Set, whatever earlier runs
\* left in the index.
C7_NoChunksGivesEmptyContext ==
    (runs > 0 /\ pc \in {"summarize", "done"} /\ split_documents(all_docs) = <<>>) =>
        /\ index = index_before
        /\ ~store_error
        /\ context_docs = <<>>

\* C8: no step removes or rewrites a record of the index: the index after a step
\* starts with the index before it; and retrieval leaves the index as it is.
C8_IndexOnlyGrows ==
    [][/\ Len(index') >= Len(index)
       /\ SubSeq(index', 1, Len(index)) = index
       /\ pc = "retrieve" => index' = index]_vars

\* C8 witness: a second run added records to the records of the first and
\* retrieved from the collection.
C8_Witness ==
    /\ pc = "summarize"
    /\ index_before # <<>>
    /\ Len(index) > Len(index_before)
    /\ retrieved_docs # <<>>

Content(r) == [source |-> r.source, publish_date |-> r.publish_date]

\* the chunks of the current run are, by content, the records stored last
StoredBefore ==
    LET chunks == split_documents(all_docs)
        n == Len(index_before)
        k == Len(chunks)
    IN /\ k > 0
       /\ n >= k
       /\ \A i \in 1..k : Content(index_before[n - k + i]) = chunks[i]

Stored == pc \in {"retrieve", "summarize"} /\ ~store_error /\ split_documents(all_docs) # <<>>

\* C9 as claimed: storing chunks that are already stored leaves the index as it
\* was after storing them once.
C9_UpsertIdempotent ==
    (Stored /\ StoredBefore) => index = index_before

\* C9 as amended: every successful store appends one new record per chunk, with
\* the chunk's content and an id no earlier record has, also when the same chunks
\* are already stored.
C9_UpsertAppendsEveryChunk ==
    Stored =>
        LET chunks == split_documents(all_docs)
            n == Len(index_before)
        IN /\ Len(index) = n + Len(chunks)
           /\ SubSeq(index, 1, n) = index_before
           /\ \A i \in 1..Len(chunks) :
                 /\ Content(index[n + i]) = chunks[i]
                 /\ \A j \in 1..(n + i - 1) : index[j].id # index[n + i].id

\* C9 witness: the chunks of the last store were stored a second time.
C9_Witness == Stored /\ StoredBefore /\ Len(index) = Len(index_before) + Len(split_documents(all_docs))

\* C10: summarize_information called with an empty Context Set returns the "no
\* relevant content" text without invoking the language model; the language
\* model is only ever invoked with a non-empty context.
C10_EmptyContextSkipsLLM ==
    /\ ~IsNone(llm_input) => Val(llm_input) # <<>>
    /\ (pc = "done" /\ report \notin {"none", "stopped", "unexpected_error"}
        /\ context_docs = <<>>) =>
          (report = "no_relevant_content" /\ IsNone(llm_input))

\* C10 witness: a run whose Context Set was empty ended with the "no relevant
\* content" text.
C10_Witness ==
    pc = "done" /\ report = "no_relevant_content" /\ context_docs = <<>> /\ IsNone(llm_input)

\* C11: for a non-empty URL whose load succeeds with n >= 1 sections,
\* scrape_website_data returns those n documents, each with source "website", the
\* requested url and the scrape date as fetch_date; it returns [] only when the
\* URL is empty or the load fails (or the page has no section).
C11_ScrapeReturnsLoadedSections ==
    sc_pc = "called" =>
        /\ (sc_url # "" /\ sc_load_ok /\ Len(sc_sections) >= 1) =>
              /\ Len(sc_result.docs) = Len(sc_sections)
              /\ \A i \in 1..Len(sc_result.docs) :
                    /\ sc_result.docs[i].source = Some("website")
                    /\ sc_result.docs[i].url = Some(sc_url)
                    /\ sc_result.docs[i].fetch_date = Some(Strftime(Now))
                    /\ sc_result.docs[i].nchunks = sc_sections[i].nchunks
        /\ sc_result.docs = <<>> => (sc_url = "" \/ ~sc_load_ok \/ sc_sections = <<>>)

RECURSIVE IsSubseq(_, _)
IsSubseq(a, b) == IF a = <<>> THEN TRUE
                  ELSE IF b = <<>> THEN FALSE
                  ELSE IF Head(a) = Head(b) THEN IsSubseq(Tail(a), Tail(b))
                  ELSE IsSubseq(a, Tail(b))

\* what the list of the direct call gives under the cutoff of days_back = days
FilteredFor(days) == filter_documents_by_date(fdocs, get_date_n_days_ago(days)).docs

\* C12: for the same list, a larger days_back gives an earlier cutoff, and the
\* output under the later cutoff is an order-preserving subsequence of the output
\* under the earlier one; filtering the output again with the same cutoff
\* returns it unchanged.
C12_FilterMonotoneIdempotent ==
    fpc = "called" =>
        /\ \A d1, d2 \in DaysBackChoices :
              d1 <= d2 =>
                  /\ DateTimeGE(MinusDays(Now, d1), MinusDays(Now, d2))
                  /\ fstart = get_date_n_days_ago(d1) => IsSubseq(fresult.docs, FilteredFor(d2))
        /\ filter_documents_by_date(fresult.docs, fstart).docs = fresult.docs

\* C12 witness: a call under the later cutoff kept some documents, dropped some,
\* and the earlier cutoff keeps more of the same list.
C12_Witness ==
    /\ fpc = "called"
    /\ fstart = get_date_n_days_ago(1)
    /\ fresult.docs # <<>>
    /\ Len(fresult.docs) < Len(FilteredFor(7))
    /\ \E i \in 1..Len(fresult.docs) : IsNews(fresult.docs[i])

====
